---- MODULE Spec2Model ----
(***************************************************************************)
(* Model of the live duplex session of src/components/LiveFeature.tsx:     *)
(* the React state and refs of the LiveFeature component, its handlers     *)
(* (startSession, the connectLive callbacks, cleanup, stopScreenShare,     *)
(* toggleScreenShare, startVideoTransmission, the buttons) and the         *)
(* browser and transport that invoke them.                                 *)
(***************************************************************************)
EXTENDS Integers, Sequences, FiniteSets, TLC

\* ------------------------------------------------------------- bounds
\* number of startSession invocations explored
MaxSessions == 2
\* number of environment events explored in one behaviour: clicks on the
\* connect, hang-up, mute and screen-share buttons, transport closes and
\* errors, the events carried by inbound messages, capture callbacks, video
\* timer ticks and clock ticks
MaxEvents == 5

\* a behaviour explores the events of one side of the session: what the
\* transport delivers ("inbound") or what the capture side does ("outbound")
Sides == {"inbound", "outbound"}
\* durations an inbound audio buffer may decode to
Durations == {1, 2}
\* characters of transcript deltas; " " is whitespace
Chars == {"a", " "}
Deltas == {<<c>> : c \in Chars}

Sessions == 1..MaxSessions

Max(a, b) == IF a >= b THEN a ELSE b

\* ------------------------------------------------------------- strings
\* String.prototype.trim on a sequence of characters
RECURSIVE TrimLeft(_)
TrimLeft(s) == IF s # <<>> /\ Head(s) = " " THEN TrimLeft(Tail(s)) ELSE s

RECURSIVE TrimRight(_)
TrimRight(s) ==
    IF s # <<>> /\ s[Len(s)] = " " THEN TrimRight(SubSeq(s, 1, Len(s) - 1)) ELSE s

Trim(s) == TrimRight(TrimLeft(s))

\* ------------------------------------------------------------- state
VARIABLES
    \* React state (useState)
    status, isConnected, isMuted, isScreenSharing, transcript, captionText,
    \* refs (useRef); 0 stands for null
    audioContextRef, inputSourceRef, processorRef, streamRef, sessionPromiseRef,
    videoStreamRef, videoIntervalRef, srcObject,
    currentInputRef, currentOutputRef, nextStartTimeRef, sourcesRef,
    \* one record per startSession invocation (its closure and its transport)
    sess,
    \* browser side: the handles that are live, suspended
    \* handlers, pending requests, frames queued behind a session promise and
    \* frames handed to a transport
    micLive, ctxOpen, outCtxOpen, procLive, srcLive, vidLive, timers, playing,
    pendingDec, pendShare, metaPending, pend, wire,
    \* id counters, the event budget and the side explored
    nSess, nVid, nTimer, nFrame, ev, side,
    \* history: handles released, handles released twice, buffers scheduled
    \* since the last interruption, what the events delivered so far amount to
    \* when each is applied in full and in delivery order, the last handler
    \* that ran, what ran the last teardown since the last startSession, the
    \* connections on which a buffer has been scheduled, the suspended
    \* handlers that were delivered before the last interruption processed
    released, relTwice, sched, expected, lastOp, tornBy, begun, stale

uiVars == <<status, isConnected, isMuted, isScreenSharing, transcript, captionText>>
refVars == <<audioContextRef, inputSourceRef, processorRef, streamRef,
             sessionPromiseRef, videoStreamRef, videoIntervalRef, srcObject,
             currentInputRef, currentOutputRef, nextStartTimeRef, sourcesRef>>
envVars == <<micLive, ctxOpen, outCtxOpen, procLive, srcLive, vidLive, timers,
             playing, pendingDec, pendShare, metaPending, pend, wire>>
cntVars == <<nSess, nVid, nTimer, nFrame, ev, side>>
histVars == <<released, relTwice, sched, expected, lastOp, tornBy, begun, stale>>
vars == <<uiVars, refVars, sess, envVars, cntVars, histVars>>

\* what a teardown can change: the component's state and refs and the handles
progVars == <<uiVars, refVars, micLive, ctxOpen, outCtxOpen, procLive, srcLive,
              vidLive, timers, playing, metaPending, released, relTwice>>

NoSess == [pc |-> "none", muted |-> FALSE, clk |-> 0, resolved |-> FALSE]

\* what an interruption started from: the finalized records, the number of
\* buffers in sourcesRef and the agent accumulation
NoPre == [tr |-> <<>>, n |-> 0, out |-> <<>>]

\* no message: every part absent
NoMsg == [audio |-> "none", dur |-> 1, out |-> <<>>, inp |-> <<>>,
          tc |-> FALSE, intr |-> FALSE]

\* the last handler that ran: its name; for a handler that processed an
\* interruption, what the interruption started from; for a step that ended
\* the handling of an inbound message, that message; for a handler that
\* scheduled a buffer, whether it was the first one since an interruption
Op(name) == [op |-> name, intr |-> FALSE, pre |-> NoPre, m |-> NoMsg,
             seed |-> FALSE]

NoExpected == [inp |-> <<>>, out |-> <<>>, tr |-> <<>>]

Init ==
    /\ status = "disconnected" /\ isConnected = FALSE /\ isMuted = FALSE
    /\ isScreenSharing = FALSE /\ transcript = <<>> /\ captionText = <<>>
    /\ audioContextRef = 0 /\ inputSourceRef = 0 /\ processorRef = 0
    /\ streamRef = 0 /\ sessionPromiseRef = 0
    /\ videoStreamRef = 0 /\ videoIntervalRef = 0 /\ srcObject = 0
    /\ currentInputRef = <<>> /\ currentOutputRef = <<>>
    /\ nextStartTimeRef = 0 /\ sourcesRef = {}
    /\ sess = [k \in Sessions |-> NoSess]
    /\ micLive = {} /\ ctxOpen = {} /\ outCtxOpen = {} /\ procLive = {}
    /\ srcLive = {} /\ vidLive = {} /\ timers = {} /\ playing = {}
    /\ pendingDec = {} /\ pendShare = 0 /\ metaPending = FALSE
    /\ pend = [k \in Sessions |-> <<>>] /\ wire = <<>>
    /\ nSess = 0 /\ nVid = 0 /\ nTimer = 0 /\ nFrame = 0 /\ ev = 0
    /\ side \in Sides
    /\ released = {} /\ relTwice = {} /\ sched = <<>>
    /\ expected = NoExpected
    /\ lastOp = Op("init") /\ tornBy = "none" /\ begun = {} /\ stale = {}

\* outputCtx.currentTime of session k's output context
Clock(k) == sess[k].clk

\* ------------------------------------------------------------- teardown
\* the handles stopScreenShare releases
ScreenHandles ==
    (IF videoIntervalRef # 0 THEN {<<"timer", videoIntervalRef>>} ELSE {})
    \cup (IF videoStreamRef # 0 THEN {<<"vid", videoStreamRef>>} ELSE {})

\* stopScreenShare, given the video sources that are live when it runs
stopScreenShareOn(live) ==
    /\ timers' = IF videoIntervalRef # 0 THEN timers \ {videoIntervalRef} ELSE timers
    /\ videoIntervalRef' = 0
    /\ vidLive' = IF videoStreamRef # 0 THEN live \ {videoStreamRef} ELSE live
    /\ videoStreamRef' = 0
    /\ srcObject' = 0
    /\ metaPending' = FALSE
    /\ isScreenSharing' = FALSE

stopScreenShare == stopScreenShareOn(vidLive)

\* the handles cleanup releases
CleanupHandles ==
    (IF streamRef # 0 THEN {<<"mic", streamRef>>} ELSE {})
    \cup (IF processorRef # 0 THEN {<<"proc", processorRef>>} ELSE {})
    \cup (IF inputSourceRef # 0 THEN {<<"src", inputSourceRef>>} ELSE {})
    \cup (IF audioContextRef # 0 THEN {<<"ctx", audioContextRef>>} ELSE {})
    \cup ScreenHandles

cleanupAudio ==
    /\ micLive' = IF streamRef # 0 THEN micLive \ {streamRef} ELSE micLive
    /\ streamRef' = 0
    /\ procLive' = IF processorRef # 0 THEN procLive \ {processorRef} ELSE procLive
    /\ processorRef' = 0
    /\ srcLive' = IF inputSourceRef # 0 THEN srcLive \ {inputSourceRef} ELSE srcLive
    /\ inputSourceRef' = 0
    /\ ctxOpen' = IF audioContextRef # 0 THEN ctxOpen \ {audioContextRef} ELSE ctxOpen
    /\ audioContextRef' = 0

cleanupPlayback ==
    /\ playing' = playing \ sourcesRef
    /\ sourcesRef' = {}

cleanupState ==
    /\ isConnected' = FALSE
    /\ status' = "disconnected"
    /\ transcript' = <<>>
    /\ captionText' = <<>>
    /\ currentInputRef' = <<>>
    /\ currentOutputRef' = <<>>

cleanup ==
    /\ cleanupAudio
    /\ cleanupPlayback
    /\ stopScreenShare
    /\ cleanupState
    /\ released' = released \cup CleanupHandles
    /\ relTwice' = relTwice \cup (CleanupHandles \cap released)
    /\ expected' = NoExpected
    /\ UNCHANGED <<isMuted, sessionPromiseRef, nextStartTimeRef, outCtxOpen>>

\* what cleanup leaves alone besides sess and lastOp
cleanupFrame ==
    /\ ev < MaxEvents
    /\ ev' = ev + 1
    /\ UNCHANGED <<pendingDec, pendShare, pend, wire, nSess, nVid, nTimer, nFrame,
                   side, sched>>

\* ------------------------------------------------------------- session
\* "Conectar Ao Vivo": rendered only while status is 'disconnected'
startSession ==
    /\ status = "disconnected"
    /\ nSess < MaxSessions
    /\ ev < MaxEvents
    /\ ev' = ev + 1
    /\ LET k == nSess + 1 IN
        /\ nSess' = k
        /\ status' = "connecting"
        /\ audioContextRef' = k
        /\ ctxOpen' = ctxOpen \cup {k}
        /\ outCtxOpen' = outCtxOpen \cup {k}
        /\ sess' = [sess EXCEPT ![k] = [pc |-> "mic", muted |-> isMuted,
                                        clk |-> 0, resolved |-> FALSE]]
    /\ lastOp' = Op("startSession") /\ tornBy' = "none" /\ begun' = begun /\ stale' = stale
    /\ UNCHANGED <<isConnected, isMuted, isScreenSharing, transcript, captionText,
                   inputSourceRef, processorRef, streamRef, sessionPromiseRef,
                   videoStreamRef, videoIntervalRef, srcObject, currentInputRef,
                   currentOutputRef, nextStartTimeRef, sourcesRef,
                   micLive, procLive, srcLive, vidLive, timers, playing,
                   pendingDec, pendShare, metaPending, pend, wire,
                   nVid, nTimer, nFrame, side, released, relTwice, sched, expected>>

\* getUserMedia resolves: the stream is stored and connectLive is called
micGranted(k) ==
    /\ sess[k].pc = "mic"
    /\ streamRef' = k
    /\ micLive' = micLive \cup {k}
    /\ sessionPromiseRef' = k
    /\ sess' = [sess EXCEPT ![k].pc = "opening"]
    /\ lastOp' = Op("micGranted")
    /\ UNCHANGED <<uiVars, audioContextRef, inputSourceRef, processorRef,
                   videoStreamRef, videoIntervalRef, srcObject, currentInputRef,
                   currentOutputRef, nextStartTimeRef, sourcesRef,
                   ctxOpen, outCtxOpen, procLive, srcLive, vidLive, timers, playing,
                   pendingDec, pendShare, metaPending, pend, wire,
                   cntVars, released, relTwice, sched, expected, tornBy, begun, stale>>

\* getUserMedia rejects: the catch block only sets the status
micDenied(k) ==
    /\ sess[k].pc = "mic"
    /\ status' = "disconnected"
    /\ sess' = [sess EXCEPT ![k].pc = "denied"]
    /\ lastOp' = Op("micDenied")
    /\ UNCHANGED <<isConnected, isMuted, isScreenSharing, transcript, captionText,
                   refVars, envVars, cntVars, released, relTwice, sched, expected, tornBy, begun, stale>>

\* the transport confirms the open: status, then the capture graph on the
\* session's own input context ctx and stream (closure of startSession).
\* Creating nodes on a context that cleanup has closed either throws (the
\* refs stay as they are) or yields nodes that never run. The promise
\* returned by connectLive resolves once the open is confirmed, before any
\* later callback runs: the sends queued behind it run in order.
onOpen(k) ==
    /\ sess[k].pc = "opening"
    /\ status' = "connected"
    /\ isConnected' = TRUE
    /\ captionText' = <<>>
    /\ \E created \in (IF k \in ctxOpen THEN {TRUE} ELSE BOOLEAN) :
        IF created
        THEN /\ srcLive' = srcLive \cup {k}
             /\ procLive' = procLive \cup {k}
             /\ inputSourceRef' = k
             /\ processorRef' = k
        ELSE UNCHANGED <<srcLive, procLive, inputSourceRef, processorRef>>
    /\ sess' = [sess EXCEPT ![k].pc = "open", ![k].resolved = TRUE]
    /\ wire' = wire \o pend[k]
    /\ pend' = [pend EXCEPT ![k] = <<>>]
    /\ lastOp' = Op("onOpen")
    /\ UNCHANGED <<isMuted, isScreenSharing, transcript,
                   audioContextRef, streamRef, sessionPromiseRef, videoStreamRef,
                   videoIntervalRef, srcObject, currentInputRef, currentOutputRef,
                   nextStartTimeRef, sourcesRef,
                   micLive, ctxOpen, outCtxOpen, vidLive, timers, playing,
                   pendingDec, pendShare, metaPending,
                   cntVars, released, relTwice, sched, expected, tornBy, begun, stale>>

\* sessionPromise.then(session => session.sendRealtimeInput(frame)): sent at
\* once when the promise of session k has resolved, queued behind the
\* promise otherwise; a send on a transport that is no longer open is lost
SendVia(k, frame) ==
    IF ~sess[k].resolved
    THEN /\ pend' = [pend EXCEPT ![k] = Append(@, frame)]
         /\ wire' = wire
    ELSE /\ pend' = pend
         /\ wire' = IF sess[k].pc = "open" THEN Append(wire, frame) ELSE wire

\* the mute test of processor.onaudioprocess: isMuted is the constant of the
\* render in which startSession was created
CaptureMuted(k) == sess[k].muted

\* processor.onaudioprocess of session k: runs while its processor is
\* connected and its context is running
onaudioprocess(k) ==
    /\ side = "outbound"
    /\ k \in procLive /\ k \in ctxOpen
    /\ ev < MaxEvents
    /\ ev' = ev + 1
    /\ nFrame' = nFrame + 1
    /\ IF CaptureMuted(k)
       THEN UNCHANGED <<pend, wire>>
       ELSE SendVia(k, [cls |-> "audio", n |-> nFrame + 1, c |-> k])
    /\ lastOp' = Op("capture")
    /\ UNCHANGED <<uiVars, refVars, sess, micLive, ctxOpen, outCtxOpen, procLive,
                   srcLive, vidLive, timers, playing, pendingDec, pendShare,
                   metaPending, nSess, nVid, nTimer, side, released, relTwice, sched, expected, tornBy, begun, stale>>

\* onClose: () => cleanup()
onClose(k) ==
    /\ sess[k].pc \in {"opening", "open", "errored"}
    /\ cleanup /\ cleanupFrame
    /\ sess' = [sess EXCEPT ![k].pc = "closed"]
    /\ lastOp' = Op("onClose") /\ tornBy' = "transport" /\ begun' = begun /\ stale' = stale

\* onError: (e) => { console.error(...); cleanup(); }
onError(k) ==
    /\ sess[k].pc \in {"opening", "open"}
    /\ cleanup /\ cleanupFrame
    /\ sess' = [sess EXCEPT ![k].pc = "errored"]
    /\ lastOp' = Op("onError") /\ tornBy' = "transport" /\ begun' = begun /\ stale' = stale

\* "Encerrar Chamada": onClick={cleanup}, rendered unless 'disconnected'
disconnect ==
    /\ status # "disconnected"
    /\ cleanup /\ cleanupFrame
    /\ UNCHANGED sess
    /\ lastOp' = Op("disconnect") /\ tornBy' = "user" /\ begun' = begun /\ stale' = stale

\* the mute button: onClick={() => setIsMuted(!isMuted)}, rendered unless
\* 'disconnected'
toggleMute ==
    /\ side = "outbound"
    /\ status # "disconnected"
    /\ ev < MaxEvents
    /\ ev' = ev + 1
    /\ isMuted' = ~isMuted
    /\ lastOp' = Op("toggleMute")
    /\ UNCHANGED <<status, isConnected, isScreenSharing, transcript, captionText,
                   refVars, sess, envVars, nSess, nVid, nTimer, nFrame, side,
                   released, relTwice, sched, expected, tornBy, begun, stale>>

\* ------------------------------------------------------------- screen share
\* the screen-share button (rendered unless 'disconnected'): toggleScreenShare
\* up to the await of getDisplayMedia
toggleScreenShare ==
    /\ side = "outbound"
    /\ status # "disconnected"
    /\ ev < MaxEvents
    /\ ev' = ev + 1
    /\ lastOp' = Op("toggleScreenShare")
    /\ IF ~isConnected
       THEN UNCHANGED <<isScreenSharing, videoStreamRef, videoIntervalRef, srcObject,
                        vidLive, timers, metaPending, pendShare,
                        released, relTwice>>
       ELSE IF isScreenSharing
       THEN /\ stopScreenShare
            /\ released' = released \cup ScreenHandles
            /\ relTwice' = relTwice \cup (ScreenHandles \cap released)
            /\ UNCHANGED pendShare
       ELSE /\ pendShare' = pendShare + 1
            /\ UNCHANGED <<isScreenSharing, videoStreamRef, videoIntervalRef,
                           srcObject, vidLive, timers, metaPending,
                           released, relTwice>>
    /\ UNCHANGED <<status, isConnected, isMuted, transcript, captionText,
                   audioContextRef, inputSourceRef, processorRef, streamRef,
                   sessionPromiseRef, currentInputRef, currentOutputRef,
                   nextStartTimeRef, sourcesRef, sess,
                   micLive, ctxOpen, outCtxOpen, procLive, srcLive, playing,
                   pendingDec, pend, wire, nSess, nVid, nTimer, nFrame, side, sched, expected, tornBy, begun, stale>>

\* getDisplayMedia resolves (lines 110-125): the stream is stored, the video
\* element loads it and the track's onended handler is registered
shareGranted ==
    /\ pendShare > 0
    /\ pendShare' = pendShare - 1
    /\ nVid' = nVid + 1
    /\ videoStreamRef' = nVid + 1
    /\ vidLive' = vidLive \cup {nVid + 1}
    /\ isScreenSharing' = TRUE
    /\ srcObject' = nVid + 1
    /\ metaPending' = TRUE
    /\ lastOp' = Op("shareGranted")
    /\ UNCHANGED <<status, isConnected, isMuted, transcript, captionText,
                   audioContextRef, inputSourceRef, processorRef, streamRef,
                   sessionPromiseRef, videoIntervalRef, currentInputRef,
                   currentOutputRef, nextStartTimeRef, sourcesRef, sess,
                   micLive, ctxOpen, outCtxOpen, procLive, srcLive, timers, playing,
                   pendingDec, pend, wire, nSess, nTimer, nFrame, ev, side,
                   released, relTwice, sched, expected, tornBy, begun, stale>>

\* getDisplayMedia rejects (lines 127-130)
shareDenied ==
    /\ pendShare > 0
    /\ pendShare' = pendShare - 1
    /\ isScreenSharing' = FALSE
    /\ lastOp' = Op("shareDenied")
    /\ UNCHANGED <<status, isConnected, isMuted, transcript, captionText,
                   refVars, sess, micLive, ctxOpen, outCtxOpen, procLive, srcLive,
                   vidLive, timers, playing, pendingDec, metaPending, pend,
                   wire, cntVars, released, relTwice, sched, expected, tornBy, begun, stale>>

\* videoRef.onloadedmetadata: startVideoTransmission starts the 500 ms timer
startVideoTransmission ==
    /\ metaPending
    /\ metaPending' = FALSE
    /\ nTimer' = nTimer + 1
    /\ videoIntervalRef' = nTimer + 1
    /\ timers' = timers \cup {nTimer + 1}
    /\ lastOp' = Op("startVideoTransmission")
    /\ UNCHANGED <<uiVars, audioContextRef, inputSourceRef, processorRef, streamRef,
                   sessionPromiseRef, videoStreamRef, srcObject, currentInputRef,
                   currentOutputRef, nextStartTimeRef, sourcesRef, sess,
                   micLive, ctxOpen, outCtxOpen, procLive, srcLive, vidLive, playing,
                   pendingDec, pendShare, pend, wire,
                   nSess, nVid, nFrame, ev, side, released, relTwice, sched, expected, tornBy, begun, stale>>

\* the user ends the share through the browser: the track of source v ends
\* and its onended handler runs stopScreenShare
trackEnded(v) ==
    /\ v \in vidLive
    /\ stopScreenShareOn(vidLive \ {v})
    /\ released' = released \cup ScreenHandles
    /\ relTwice' = relTwice \cup (ScreenHandles \cap released)
    /\ lastOp' = Op("trackEnded")
    /\ UNCHANGED <<status, isConnected, isMuted, transcript, captionText,
                   audioContextRef, inputSourceRef, processorRef, streamRef,
                   sessionPromiseRef, currentInputRef, currentOutputRef,
                   nextStartTimeRef, sourcesRef, sess,
                   micLive, ctxOpen, outCtxOpen, procLive, srcLive, playing,
                   pendingDec, pendShare, pend, wire, cntVars, sched, expected, tornBy, begun, stale>>

\* the interval callback of timer t (lines 142-163)
videoTick(t) ==
    /\ t \in timers
    /\ ev < MaxEvents
    /\ ev' = ev + 1
    /\ nFrame' = nFrame + 1
    /\ IF sessionPromiseRef = 0
       THEN UNCHANGED <<pend, wire>>
       ELSE SendVia(sessionPromiseRef,
                    [cls |-> "image", n |-> nFrame + 1, c |-> sessionPromiseRef])
    /\ lastOp' = Op("videoTick")
    /\ UNCHANGED <<uiVars, refVars, sess, micLive, ctxOpen, outCtxOpen, procLive,
                   srcLive, vidLive, timers, playing, pendingDec, pendShare,
                   metaPending, nSess, nVid, nTimer, side, released, relTwice, sched, expected, tornBy, begun, stale>>

\* ------------------------------------------------------------- inbound
\* a LiveServerMessage: every part is optional ("none", <<>>, FALSE = absent)
Messages ==
    {m \in [audio : {"none", "ok", "bad"}, dur : Durations,
            out : {<<>>} \cup Deltas, inp : {<<>>} \cup Deltas,
            tc : BOOLEAN, intr : BOOLEAN] :
        m.audio # "ok" => m.dur = 1}

\* the number of events a message carries
Weight(m) ==
    (IF m.audio # "none" THEN 1 ELSE 0) + (IF m.out # <<>> THEN 1 ELSE 0)
    + (IF m.inp # <<>> THEN 1 ELSE 0) + (IF m.tc THEN 1 ELSE 0)
    + (IF m.intr THEN 1 ELSE 0)

\* the state onMessage works on
Refs == [ns |-> nextStartTimeRef, srcs |-> sourcesRef, play |-> playing,
         out |-> currentOutputRef, inp |-> currentInputRef, tr |-> transcript,
         cap |-> captionText, sched |-> sched, pre |-> NoPre]

Install(r) ==
    /\ nextStartTimeRef' = r.ns
    /\ sourcesRef' = r.srcs
    /\ playing' = r.play
    /\ currentOutputRef' = r.out
    /\ currentInputRef' = r.inp
    /\ transcript' = r.tr
    /\ captionText' = r.cap
    /\ sched' = r.sched

\* Schedule without line 222: the watermark is not advanced
Schedule_NoAdvance(r, k, d, clk) ==
    LET src == [c |-> k, start |-> r.ns, dur |-> d, began |-> Max(r.ns, clk)]
    IN [r EXCEPT !.srcs = @ \cup {src},
                 !.play = @ \cup {src},
                 !.sched = Append(@, src)]

\* lines 216-223: the decoded buffer of duration d is started at the
\* watermark, which then advances by d; clk is outputCtx.currentTime
Schedule(r, k, d, clk) ==
    LET src == [c |-> k, start |-> r.ns, dur |-> d, began |-> Max(r.ns, clk)]
    IN [r EXCEPT !.ns = r.ns + d,
                 !.srcs = @ \cup {src},
                 !.play = @ \cup {src},
                 !.sched = Append(@, src)]

\* lines 227-235
Transcription(r, m) ==
    LET r1 == IF m.out # <<>>
              THEN [r EXCEPT !.out = r.out \o m.out, !.cap = r.out \o m.out]
              ELSE r
    IN IF m.inp # <<>> THEN [r1 EXCEPT !.inp = r1.inp \o m.inp] ELSE r1

\* the records a turn-complete appends (lines 238-247)
NewItems(input, output) ==
    (IF input # <<>> THEN <<[role |-> "user", text |-> input]>> ELSE <<>>)
    \o (IF output # <<>> THEN <<[role |-> "model", text |-> output]>> ELSE <<>>)

\* lines 237-251
TurnComplete(r, m) ==
    IF m.tc
    THEN [r EXCEPT !.tr = r.tr \o NewItems(Trim(r.inp), Trim(r.out)),
                   !.inp = <<>>, !.out = <<>>]
    ELSE r

\* Interrupted without line 256: the watermark is kept
Interrupted_KeepsWatermark(r, m) ==
    IF m.intr
    THEN [r EXCEPT !.play = r.play \ r.srcs, !.srcs = {},
                   !.out = <<>>, !.cap = <<>>, !.sched = <<>>,
                   !.pre = [tr |-> r.tr, n |-> Cardinality(r.srcs), out |-> r.out]]
    ELSE r

\* Interrupted with the user accumulation emptied as well
Interrupted_ClearsInput(r, m) ==
    IF m.intr
    THEN [r EXCEPT !.play = r.play \ r.srcs, !.srcs = {}, !.ns = 0,
                   !.out = <<>>, !.inp = <<>>, !.cap = <<>>, !.sched = <<>>,
                   !.pre = [tr |-> r.tr, n |-> Cardinality(r.srcs), out |-> r.out]]
    ELSE r

\* Interrupted without line 257: the agent accumulation is kept
Interrupted_KeepsOutput(r, m) ==
    IF m.intr
    THEN [r EXCEPT !.play = r.play \ r.srcs, !.srcs = {}, !.ns = 0,
                   !.cap = <<>>, !.sched = <<>>,
                   !.pre = [tr |-> r.tr, n |-> Cardinality(r.srcs), out |-> r.out]]
    ELSE r

\* lines 253-259; pre keeps what the interruption started from
Interrupted(r, m) ==
    IF m.intr
    THEN [r EXCEPT !.play = r.play \ r.srcs, !.srcs = {}, !.ns = 0,
                   !.out = <<>>, !.cap = <<>>, !.sched = <<>>,
                   !.pre = [tr |-> r.tr, n |-> Cardinality(r.srcs), out |-> r.out]]
    ELSE r

\* everything of onMessage after the audio part
AfterAudio(r, m) == Interrupted(TurnComplete(Transcription(r, m), m), m)

MsgOp(name, r, m) == [Op(name) EXCEPT !.intr = m.intr, !.pre = r.pre, !.m = m]

\* the events of message m applied in full to the expected accumulations e:
\* deltas appended, a turn-complete finalizing both directions, an
\* interruption discarding the agent accumulation
ExpectedAfter(e, m) ==
    LET i == e.inp \o m.inp
        o == e.out \o m.out
    IN [inp |-> IF m.tc THEN <<>> ELSE i,
        out |-> IF m.tc \/ m.intr THEN <<>> ELSE o,
        tr |-> IF m.tc THEN e.tr \o NewItems(Trim(i), Trim(o)) ELSE e.tr]

\* onMessage of session k. With an audio part the handler raises the
\* watermark to the output clock and suspends at the await of the decode;
\* without one it runs to its end.
onMessage(k, m) ==
    /\ side = "inbound"
    /\ sess[k].pc = "open"
    /\ Weight(m) > 0
    /\ ev + Weight(m) <= MaxEvents
    /\ ev' = ev + Weight(m)
    /\ expected' = ExpectedAfter(expected, m)
    /\ IF m.audio = "none"
       THEN /\ Install(AfterAudio(Refs, m))
            /\ lastOp' = MsgOp("message", AfterAudio(Refs, m), m)
            /\ stale' = IF m.intr THEN pendingDec ELSE stale
            /\ UNCHANGED pendingDec
       ELSE /\ Install([Refs EXCEPT !.ns = Max(nextStartTimeRef, Clock(k))])
            /\ pendingDec' = pendingDec \cup {[k |-> k, at |-> ev, m |-> m]}
            /\ lastOp' = Op("message")
            /\ stale' = stale
    /\ UNCHANGED <<status, isConnected, isMuted, isScreenSharing,
                   audioContextRef, inputSourceRef, processorRef, streamRef,
                   sessionPromiseRef, videoStreamRef, videoIntervalRef, srcObject,
                   sess, micLive, ctxOpen, outCtxOpen, procLive, srcLive, vidLive,
                   timers, pendShare, metaPending, pend, wire,
                   nSess, nVid, nTimer, nFrame, side, released, relTwice, tornBy, begun>>

\* the outcome of decode / decodeAudioData on the chunk of the suspended
\* handler p: a buffer, or an exception that ends the handler
DecodeFails(p) == p.m.audio = "bad"

\* the await of line 209 completes for the suspended handler p
decodeDone(p) ==
    /\ p \in pendingDec
    /\ pendingDec' = pendingDec \ {p}
    /\ IF DecodeFails(p)
       THEN /\ UNCHANGED <<nextStartTimeRef, sourcesRef, playing, currentOutputRef,
                           currentInputRef, transcript, captionText, sched, begun>>
            /\ stale' = stale \ {p}
            /\ lastOp' = [Op("decodeFailed") EXCEPT !.m = p.m]
       ELSE LET r == AfterAudio(Schedule(Refs, p.k, p.m.dur, Clock(p.k)), p.m)
            IN /\ Install(r)
               /\ begun' = begun \cup {p.k}
               /\ stale' = IF p.m.intr THEN pendingDec \ {p} ELSE stale \ {p}
               /\ lastOp' = [MsgOp("decoded", r, p.m)
                               EXCEPT !.seed = (sched = <<>> /\ begun # {})]
    /\ UNCHANGED <<status, isConnected, isMuted, isScreenSharing,
                   audioContextRef, inputSourceRef, processorRef, streamRef,
                   sessionPromiseRef, videoStreamRef, videoIntervalRef, srcObject,
                   sess, micLive, ctxOpen, outCtxOpen, procLive, srcLive, vidLive,
                   timers, pendShare, metaPending, pend, wire,
                   cntVars, released, relTwice, expected, tornBy>>

\* the 'ended' listener of a buffer that played to its end (line 219)
sourceEnded(src) ==
    /\ src \in playing
    /\ Clock(src.c) >= src.began + src.dur
    /\ playing' = playing \ {src}
    /\ sourcesRef' = sourcesRef \ {src}
    /\ lastOp' = Op("ended")
    /\ UNCHANGED <<uiVars, audioContextRef, inputSourceRef, processorRef, streamRef,
                   sessionPromiseRef, videoStreamRef, videoIntervalRef, srcObject,
                   currentInputRef, currentOutputRef, nextStartTimeRef,
                   sess, micLive, ctxOpen, outCtxOpen, procLive, srcLive, vidLive,
                   timers, pendingDec, pendShare, metaPending, pend, wire,
                   cntVars, released, relTwice, sched, expected, tornBy, begun, stale>>

\* time passes on the clock of every output context created so far
tick ==
    /\ side = "inbound"
    /\ outCtxOpen # {}
    /\ ev < MaxEvents
    /\ ev' = ev + 1
    /\ sess' = [k \in Sessions |->
                  IF k \in outCtxOpen THEN [sess[k] EXCEPT !.clk = @ + 1] ELSE sess[k]]
    /\ lastOp' = Op("tick")
    /\ UNCHANGED <<uiVars, refVars, envVars, nSess, nVid, nTimer, nFrame, side,
                   released, relTwice, sched, expected, tornBy, begun, stale>>

\* ------------------------------------------------------------- system
Next ==
    \/ startSession
    \/ \E k \in Sessions : micGranted(k)
    \/ \E k \in Sessions : micDenied(k)
    \/ \E k \in Sessions : onOpen(k)
    \/ \E k \in Sessions : onaudioprocess(k)
    \/ \E k \in Sessions : onClose(k)
    \/ \E k \in Sessions : onError(k)
    \/ disconnect
    \/ toggleMute
    \/ toggleScreenShare
    \/ shareGranted
    \/ shareDenied
    \/ startVideoTransmission
    \/ \E v \in vidLive : trackEnded(v)
    \/ \E t \in timers : videoTick(t)
    \/ \E k \in Sessions, m \in Messages : onMessage(k, m)
    \/ \E p \in pendingDec : decodeDone(p)
    \/ \E src \in playing : sourceEnded(src)
    \/ tick

Spec == Init /\ [][Next]_vars

\* ------------------------------------------------------------- failing release
\* the release steps of cleanup (lines 46-69) in the order it runs them
ReleaseSteps == <<"track", "processor", "source", "context", "buffer", "timer",
                  "videoTrack">>

StepNo(s) == CHOOSE i \in DOMAIN ReleaseSteps : ReleaseSteps[i] = s

\* the release calls that can fail: track.stop(), disconnect(), close(),
\* source.stop(); clearInterval cannot
FailingSteps == {"track", "processor", "source", "context", "buffer", "videoTrack"}

\* a failing call throws, and the exception leaves cleanup, which has no
\* try block; a failing close() is a rejected promise that nothing awaits
Throws(f) == f # "context"

\* the call of step s released its handle although step f failed
Released(s, f) == s # f /\ (Throws(f) => StepNo(s) < StepNo(f))

\* the statement after the call of step s ran although step f failed
Nulled(s, f) == Released(s, f) \/ (s = f /\ ~Throws(f))

\* cleanup reaches the call of step f
CanFail(f) ==
    CASE f = "track" -> streamRef # 0
      [] f = "processor" -> processorRef # 0
      [] f = "source" -> inputSourceRef # 0
      [] f = "context" -> audioContextRef # 0
      [] f = "buffer" -> sourcesRef # {}
      [] f = "videoTrack" -> videoStreamRef # 0

\* the handles cleanup releases when step f fails
HandlesReleased(f) ==
    (IF streamRef # 0 /\ Released("track", f) THEN {<<"mic", streamRef>>} ELSE {})
    \cup (IF processorRef # 0 /\ Released("processor", f)
          THEN {<<"proc", processorRef>>} ELSE {})
    \cup (IF inputSourceRef # 0 /\ Released("source", f)
          THEN {<<"src", inputSourceRef>>} ELSE {})
    \cup (IF audioContextRef # 0 /\ Released("context", f)
          THEN {<<"ctx", audioContextRef>>} ELSE {})
    \cup (IF videoIntervalRef # 0 /\ Released("timer", f)
          THEN {<<"timer", videoIntervalRef>>} ELSE {})
    \cup (IF videoStreamRef # 0 /\ Released("videoTrack", f)
          THEN {<<"vid", videoStreamRef>>} ELSE {})

\* cleanup when the call of release step f fails
cleanupFailing(f) ==
    /\ CanFail(f)
    /\ micLive' = IF streamRef # 0 /\ Released("track", f)
                  THEN micLive \ {streamRef} ELSE micLive
    /\ streamRef' = IF Nulled("track", f) THEN 0 ELSE streamRef
    /\ procLive' = IF processorRef # 0 /\ Released("processor", f)
                   THEN procLive \ {processorRef} ELSE procLive
    /\ processorRef' = IF Nulled("processor", f) THEN 0 ELSE processorRef
    /\ srcLive' = IF inputSourceRef # 0 /\ Released("source", f)
                  THEN srcLive \ {inputSourceRef} ELSE srcLive
    /\ inputSourceRef' = IF Nulled("source", f) THEN 0 ELSE inputSourceRef
    /\ ctxOpen' = IF audioContextRef # 0 /\ Released("context", f)
                  THEN ctxOpen \ {audioContextRef} ELSE ctxOpen
    /\ audioContextRef' = IF Nulled("context", f) THEN 0 ELSE audioContextRef
    /\ IF f = "buffer"
       THEN /\ \E done \in SUBSET sourcesRef :
                 /\ done # sourcesRef
                 /\ playing' = playing \ done
            /\ sourcesRef' = sourcesRef
       ELSE IF Released("buffer", f)
       THEN cleanupPlayback
       ELSE UNCHANGED <<playing, sourcesRef>>
    /\ timers' = IF videoIntervalRef # 0 /\ Released("timer", f)
                 THEN timers \ {videoIntervalRef} ELSE timers
    /\ videoIntervalRef' = IF Nulled("timer", f) THEN 0 ELSE videoIntervalRef
    /\ vidLive' = IF videoStreamRef # 0 /\ Released("videoTrack", f)
                  THEN vidLive \ {videoStreamRef} ELSE vidLive
    /\ videoStreamRef' = IF Nulled("videoTrack", f) THEN 0 ELSE videoStreamRef
    /\ IF Throws(f)
       THEN UNCHANGED <<srcObject, metaPending, isScreenSharing, isConnected, status,
                        transcript, captionText, currentInputRef, currentOutputRef,
                        expected>>
       ELSE /\ srcObject' = 0 /\ metaPending' = FALSE /\ isScreenSharing' = FALSE
            /\ cleanupState
            /\ expected' = NoExpected
    /\ released' = released \cup HandlesReleased(f)
    /\ relTwice' = relTwice \cup (HandlesReleased(f) \cap released)
    /\ UNCHANGED <<isMuted, sessionPromiseRef, nextStartTimeRef, outCtxOpen>>

\* what a failing cleanup leaves alone besides sess and lastOp; the failure
\* of the release call is an event of its own
cleanupFailingFrame ==
    /\ ev + 1 < MaxEvents
    /\ ev' = ev + 2
    /\ UNCHANGED <<pendingDec, pendShare, pend, wire, nSess, nVid, nTimer, nFrame,
                   side, sched>>

\* "Encerrar Chamada" when release step f fails
disconnectFailing(f) ==
    /\ status # "disconnected"
    /\ cleanupFailing(f) /\ cleanupFailingFrame
    /\ UNCHANGED sess
    /\ lastOp' = Op("teardownFailed") /\ tornBy' = "user"
    /\ begun' = begun /\ stale' = stale

\* onClose when release step f fails
onCloseFailing(k, f) ==
    /\ sess[k].pc \in {"opening", "open", "errored"}
    /\ cleanupFailing(f) /\ cleanupFailingFrame
    /\ sess' = [sess EXCEPT ![k].pc = "closed"]
    /\ lastOp' = Op("teardownFailed") /\ tornBy' = "transport"
    /\ begun' = begun /\ stale' = stale

\* onError when release step f fails
onErrorFailing(k, f) ==
    /\ sess[k].pc \in {"opening", "open"}
    /\ cleanupFailing(f) /\ cleanupFailingFrame
    /\ sess' = [sess EXCEPT ![k].pc = "errored"]
    /\ lastOp' = Op("teardownFailed") /\ tornBy' = "transport"
    /\ begun' = begun /\ stale' = stale

\* the component in an environment whose release calls may fail
NextFailing ==
    \/ Next
    \/ \E f \in FailingSteps : disconnectFailing(f)
    \/ \E k \in Sessions, f \in FailingSteps : onCloseFailing(k, f)
    \/ \E k \in Sessions, f \in FailingSteps : onErrorFailing(k, f)

SpecFailing == Init /\ [][NextFailing]_vars

\* ------------------------------------------------------------- properties
\* the buffers of connection c scheduled since the last interruption, in
\* scheduling order
ConnSched(c) == SelectSeq(sched, LAMBDA s : s.c = c)

\* the sum of the durations of the first n buffers of q
RECURSIVE SumDur(_, _)
SumDur(q, n) == IF n = 0 THEN 0 ELSE SumDur(q, n - 1) + q[n].dur

\* C1: among the buffers scheduled on one connection since the last
\* interruption, the i-th is given a start time of at least the first one's
\* start time plus the durations of the i-1 buffers before it, and no two
\* intervals [start, start + dur) overlap.
C1_GaplessNoOverlap ==
    \A c \in Sessions :
        LET q == ConnSched(c) IN
        \A i \in 1..Len(q) :
            /\ q[i].start >= q[1].start + SumDur(q, i - 1)
            /\ \A j \in 1..Len(q) :
                   i < j => q[i].start + q[i].dur <= q[j].start

\* C1 witness: three buffers scheduled on one connection without an
\* interruption, the second right behind the first.
C1_ThreeBuffersScheduled ==
    \E c \in Sessions :
        LET q == ConnSched(c) IN
        /\ Len(q) >= 3
        /\ q[2].start = q[1].start + q[1].dur

\* C2: right after a handler processed an interruption, sourcesRef is empty
\* and none of its buffers plays any more, the agent accumulation is empty,
\* and the finalized records are those the interruption started from.
C2_InterruptionClears ==
    lastOp.intr =>
        /\ sourcesRef = {}
        /\ playing = {}
        /\ currentOutputRef = <<>>
        /\ transcript = lastOp.pre.tr

\* C2 witness: an interruption was just processed while a buffer was in
\* sourcesRef and the agent accumulation was not empty.
C2_InterruptedWhilePlaying ==
    /\ lastOp.intr
    /\ lastOp.pre.n >= 1
    /\ lastOp.pre.out # <<>>

\* C3: on the first connection, once no handler is suspended, the finalized
\* records are, turn by turn, the trimmed concatenation of the deltas that
\* were delivered before the turn-complete, in delivery order.
C3_TranscriptReconstruction ==
    (nSess = 1 /\ status = "connected" /\ pendingDec = {})
        => transcript = expected.tr

\* C4: in a connected session a capture callback transmits exactly one
\* audio frame when muted is false and nothing when muted is true.
C4_MuteGatesCapture ==
    [][\A k \in Sessions :
          (onaudioprocess(k) /\ status = "connected" /\ sess[k].pc = "open")
              => IF isMuted
                 THEN wire' = wire
                 ELSE /\ Len(wire') = Len(wire) + 1
                      /\ wire'[Len(wire')].cls = "audio"]_vars

Teardowns == {"disconnect", "onClose", "onError"}

\* C5: a teardown that runs while the state is already Disconnected
\* releases nothing and changes nothing, and no handle is released twice.
C5_TeardownIdempotent ==
    [][(lastOp'.op \in Teardowns /\ status = "disconnected")
          => (UNCHANGED progVars /\ relTwice' = {})]_vars

\* C6: the status changes only from disconnected to connecting (by
\* startSession), from connecting to connected or disconnected, and from
\* connected to disconnected.
C6_StatusTransitions ==
    [][status' # status =>
          \/ status = "disconnected" /\ status' = "connecting"
                /\ lastOp'.op = "startSession"
          \/ status = "connecting" /\ status' \in {"connected", "disconnected"}
          \/ status = "connected" /\ status' = "disconnected"]_vars

\* the connection attempts that failed: microphone refused, or transport
\* error before the open was confirmed
FailedAttempts ==
    {k \in Sessions : \/ sess[k].pc = "denied"
                      \/ sess[k].pc = "errored" /\ ~sess[k].resolved}

\* C7: right after a connection attempt failed the status is disconnected
\* and nothing the attempt acquired is still held: its input context, its
\* output context and its microphone stream are released.
C7_FailedConnectReleasesAll ==
    lastOp.op \in {"micDenied", "onError"} =>
        \A k \in FailedAttempts :
            /\ status = "disconnected"
            /\ k \notin ctxOpen
            /\ k \notin outCtxOpen
            /\ k \notin micLive

\* C8: a teardown that runs in a state other than Disconnected leaves no
\* microphone stream live, no capture node connected, no buffer in
\* sourcesRef or playing, no video source live, no video timer running,
\* both accumulations empty and the status disconnected.
C8_TeardownReleasesEverything ==
    [][(lastOp'.op \in Teardowns /\ status # "disconnected")
          => /\ micLive' = {} /\ procLive' = {} /\ srcLive' = {}
             /\ sourcesRef' = {} /\ playing' = {}
             /\ vidLive' = {} /\ timers' = {} /\ ~isScreenSharing'
             /\ currentInputRef' = <<>> /\ currentOutputRef' = <<>>
             /\ status' = "disconnected"]_vars

\* the transports that are open
LiveTransports == {k \in Sessions : sess[k].pc = "open"}

\* C9: at most one transport is open at any time.
C9_OneLiveTransport == Cardinality(LiveTransports) <= 1

\* C10: a click on the mute or the screen-share button never changes the
\* status, and changes nothing at all unless the status is connected.
C10_TogglesOnlyWhenConnected ==
    [][(toggleMute \/ toggleScreenShare)
          => /\ status' = status
             /\ status # "connected" => UNCHANGED <<progVars, pendShare>>]_vars

\* the records a step appended to the transcript
Appended == SubSeq(transcript', Len(transcript) + 1, Len(transcript'))

\* what a turn-complete carried by message m has to do in one step
TurnCompleteEffect(m) ==
    LET accIn == currentInputRef \o m.inp
        accOut == currentOutputRef \o m.out
    IN /\ Len(transcript') >= Len(transcript)
       /\ SubSeq(transcript', 1, Len(transcript)) = transcript
       /\ Len(Appended) <= 2
       /\ \A i, j \in DOMAIN Appended :
             i < j => Appended[i].role = "user" /\ Appended[j].role = "model"
       /\ \A i \in DOMAIN Appended :
             Appended[i].text # <<>> /\ Trim(Appended[i].text) = Appended[i].text
       /\ Trim(accIn) = <<>> => \A i \in DOMAIN Appended : Appended[i].role # "user"
       /\ Trim(accOut) = <<>> => \A i \in DOMAIN Appended : Appended[i].role # "model"
       /\ currentInputRef' = <<>>
       /\ currentOutputRef' = <<>>

\* C11: when the handling of a message that carries turn-complete ends, the
\* transcript has grown by at most one record per role, the user record
\* first, each text trimmed and not empty; a direction whose accumulation
\* (with the delta of the same message) is empty or all whitespace gets no
\* record; and both accumulations are empty afterwards.
C11_TurnCompleteFinalizes ==
    [][lastOp'.m.tc => TurnCompleteEffect(lastOp'.m)]_vars

\* C11 for the handlers that reached their turn-complete part (lines
\* 237-251): holds.
C11_ProcessedTurnComplete ==
    [][(lastOp'.m.tc /\ lastOp'.op # "decodeFailed")
          => TurnCompleteEffect(lastOp'.m)]_vars

\* the frames of class cls in the sequence q, in order
OfClass(q, cls) == SelectSeq(q, LAMBDA f : f.cls = cls)

\* the frames of q carry increasing callback numbers
InCallbackOrder(q) == \A i, j \in DOMAIN q : i < j => q[i].n < q[j].n

\* the step handed one more frame to a transport or queued it behind a
\* session promise
FrameHanded ==
    \/ Len(wire') = Len(wire) + 1
    \/ \E k \in Sessions : Len(pend'[k]) = Len(pend[k]) + 1

\* the sessions whose promise will never deliver a frame any more
Undeliverable == {k \in Sessions : sess[k].pc \in {"denied", "errored", "closed"}
                                     /\ ~sess[k].resolved}

\* C12: the audio frames handed to a transport are in the order of their
\* capture callbacks and the video frames in the order of their timer
\* ticks, none twice; a capture callback that runs while isMuted is false
\* and a timer tick that produces a frame hand it over (to an open transport
\* or to the queue behind the session promise); and no frame stays queued
\* behind a promise that will never deliver it.
C12_FramesInOrderExactlyOnce ==
    [][/\ InCallbackOrder(OfClass(wire', "audio"))
       /\ InCallbackOrder(OfClass(wire', "image"))
       /\ (lastOp'.op = "capture" /\ ~isMuted) => FrameHanded
       /\ (lastOp'.op = "videoTick" /\ sessionPromiseRef # 0) => FrameHanded
       /\ \A k \in Undeliverable' : pend'[k] = <<>>]_vars

\* a failed decode leaves the session as it is: no teardown, no status
\* change, nothing released, the transports and the playback untouched
SessionKept ==
    UNCHANGED <<status, isConnected, sess, micLive, ctxOpen, outCtxOpen, procLive,
                srcLive, vidLive, timers, released, sourcesRef, playing,
                nextStartTimeRef, sched>>

\* the parts of message m other than its audio chunk took effect
RestOfMessageApplied(m) ==
    LET r == AfterAudio(Refs, m)
    IN /\ currentOutputRef' = r.out
       /\ currentInputRef' = r.inp
       /\ transcript' = r.tr
       /\ sourcesRef' = r.srcs

\* C13: a decoding failure drops the chunk and nothing else: the session
\* stays as it is (no teardown, no status change, playback and watermark
\* untouched, so the next chunk is scheduled as usual), and the other parts
\* of the message take effect.
C13_DecodeFailureDropsOnlyChunk ==
    [][lastOp'.op = "decodeFailed"
          => SessionKept /\ RestOfMessageApplied(lastOp'.m)]_vars

\* C13 without the other parts of the message: holds.
C13_DecodeFailureKeepsSession ==
    [][lastOp'.op = "decodeFailed" => SessionKept]_vars

\* the step stops the screen share: the toggle while sharing, or the ended
\* handler of a video track
StopsShare ==
    \/ lastOp'.op = "trackEnded"
    \/ lastOp'.op = "toggleScreenShare" /\ isConnected /\ isScreenSharing

\* what a stop of the screen share leaves alone: the status, the audio
\* capture, the playback and the transcript state
AudioAndSessionKept ==
    UNCHANGED <<status, isConnected, isMuted, transcript, captionText, sess,
                audioContextRef, inputSourceRef, processorRef, streamRef,
                sessionPromiseRef, micLive, ctxOpen, outCtxOpen, procLive, srcLive,
                currentInputRef, currentOutputRef, nextStartTimeRef, sourcesRef,
                playing, sched>>

\* C14: a stop of the screen share leaves no video timer running and no
\* video source live, sets isScreenSharing to false, and changes neither
\* the status nor the audio capture nor the playback.
C14_StopShareReleasesVideoOnly ==
    [][StopsShare
          => /\ timers' = {} /\ videoIntervalRef' = 0
             /\ vidLive' = {} /\ videoStreamRef' = 0
             /\ ~isScreenSharing'
             /\ AudioAndSessionKept]_vars

\* C14 for the timer and the source the refs hold when the stop runs: holds.
C14_StopShareReleasesHeld ==
    [][StopsShare
          => /\ videoIntervalRef \notin timers' /\ videoIntervalRef' = 0
             /\ videoStreamRef \notin vidLive' /\ videoStreamRef' = 0
             /\ ~isScreenSharing'
             /\ AudioAndSessionKept]_vars

\* the handlers of the screen share
ShareOps == {"toggleScreenShare", "shareGranted", "shareDenied",
             "startVideoTransmission", "trackEnded", "videoTick"}

\* C15: a timer tick produces a video frame only while isScreenSharing is
\* true, and no handler of the screen share changes the audio capture or the
\* audio frames sent or queued.
C15_VideoOnlyWhileSharing ==
    [][/\ (lastOp'.op = "videoTick" /\ sessionPromiseRef # 0) => isScreenSharing
       /\ lastOp'.op \in ShareOps
            => /\ UNCHANGED <<procLive, srcLive, ctxOpen, micLive, isMuted, sess>>
               /\ OfClass(wire', "audio") = OfClass(wire, "audio")
               /\ \A k \in Sessions :
                     OfClass(pend'[k], "audio") = OfClass(pend[k], "audio")]_vars

\* C16: a transport close or error runs the teardown, so the status is
\* disconnected right after it; and once a close or an error has torn the
\* session down, connectLive is not called again before the next
\* startSession.
C16_CloseTearsDownNoReopen ==
    [][/\ lastOp'.op \in {"onClose", "onError"}
            => status' = "disconnected" /\ ~isConnected'
       /\ tornBy = "transport" => lastOp'.op # "micGranted"]_vars

\* C16 without the calls of connectLive that follow the teardown: holds.
C16_CloseTearsDown ==
    [][lastOp'.op \in {"onClose", "onError"}
          => status' = "disconnected" /\ ~isConnected']_vars

\* C17: the first buffer scheduled on a connection is given a start time
\* that is not later than the clock of that connection's output context at
\* the moment it is scheduled: it is not delayed by an earlier watermark.
C17_FirstBufferAtClock ==
    [][\A k \in Sessions :
          (lastOp'.op = "decoded" /\ k \in begun' \ begun)
              => nextStartTimeRef <= Clock(k)]_vars

\* a callback of the transport of session k runs although a later
\* startSession has been invoked
StaleCallback(k) ==
    /\ k < nSess
    /\ \/ onOpen(k)
       \/ onClose(k)
       \/ onError(k)
       \/ \E m \in Messages : onMessage(k, m)
       \/ \E p \in pendingDec : p.k = k /\ decodeDone(p)

\* C18: a callback of the transport of an earlier connection changes
\* nothing of the component's state, refs and handles once a later
\* startSession has been invoked, and an open confirmation that arrives
\* while the status is disconnected leaves it disconnected.
C18_StaleCallbacksHaveNoEffect ==
    [][\A k \in Sessions :
          /\ StaleCallback(k)
                => UNCHANGED <<uiVars, refVars, micLive, ctxOpen, procLive, srcLive,
                               vidLive, timers, playing>>
          /\ (onOpen(k) /\ status = "disconnected") => status' = "disconnected"]_vars

\* C19: while the status is disconnected no buffer is in sourcesRef, none
\* is scheduled or playing, and both transcript accumulations are empty.
C19_QuietWhileDisconnected ==
    status = "disconnected"
        => /\ sourcesRef = {}
           /\ playing = {}
           /\ currentInputRef = <<>>
           /\ currentOutputRef = <<>>

\* C20: when the decode of a chunk that was delivered before an
\* interruption completes after that interruption has been processed, no
\* buffer is added to sourcesRef and none starts playing.
C20_NoStartAfterInterruption ==
    [][\A p \in stale :
          decodeDone(p) => sourcesRef' \subseteq sourcesRef
                           /\ playing' \subseteq playing]_vars

\* C21: while the status is disconnected no capture resource is held: no
\* microphone stream is live, no capture node is connected, no video source
\* is live, no video timer runs and isScreenSharing is false; also when the
\* teardown ran while getUserMedia or getDisplayMedia was still pending.
C21_NoCaptureWhileDisconnected ==
    status = "disconnected"
        => /\ micLive = {} /\ procLive = {} /\ srcLive = {}
           /\ vidLive = {} /\ timers = {}
           /\ ~isScreenSharing

\* C22: right after a teardown no output audio context is open.
C22_TeardownClosesOutputContext ==
    [][lastOp'.op \in Teardowns => outCtxOpen' = {}]_vars

\* the refs of the release steps that still hold something
RefsLeft ==
    (IF streamRef # 0 THEN 1 ELSE 0) + (IF processorRef # 0 THEN 1 ELSE 0)
    + (IF inputSourceRef # 0 THEN 1 ELSE 0) + (IF audioContextRef # 0 THEN 1 ELSE 0)
    + (IF sourcesRef # {} THEN 1 ELSE 0) + (IF videoIntervalRef # 0 THEN 1 ELSE 0)
    + (IF videoStreamRef # 0 THEN 1 ELSE 0)

\* C23: right after a teardown in which one release step failed, every other
\* step has run: at most the ref of the failed step still holds something,
\* isScreenSharing is false, both accumulations are empty and the status is
\* disconnected.
C23_TeardownBestEffort ==
    lastOp.op = "teardownFailed"
        => /\ RefsLeft <= 1
           /\ ~isScreenSharing
           /\ currentInputRef = <<>> /\ currentOutputRef = <<>>
           /\ status = "disconnected" /\ ~isConnected

\* C24: the start time given to a buffer is not earlier than the reading of
\* the output clock at the moment the buffer is started, also when the
\* decode completed some time after the chunk arrived.
C24_NeverStartsInThePast ==
    [][\A p \in pendingDec :
          (decodeDone(p) /\ ~DecodeFails(p)) => nextStartTimeRef >= Clock(p.k)]_vars

\* the suspended handlers whose message was delivered before e events
DeliveredBefore(e) == {q \in pendingDec : q.at < e}

\* C25: the effects of a message are applied before those of any message
\* delivered after it: a handler without an audio part runs only when no
\* handler is suspended, and a suspended handler resumes only when none that
\* was delivered before it is still suspended.
C25_EffectsInDeliveryOrder ==
    [][/\ (lastOp'.op = "message" /\ pendingDec' = pendingDec) => pendingDec = {}
       /\ \A p \in pendingDec :
             decodeDone(p) => DeliveredBefore(p.at) = {}]_vars

\* the reading of the output clock that is furthest ahead
MaxClock ==
    CHOOSE c \in {Clock(k) : k \in Sessions} : \A k \in Sessions : Clock(k) <= c

C27_DecodeFailureKeepsOtherEvents ==
    [][lastOp'.op = "decodeFailed"
          => LET r == AfterAudio(Refs, lastOp'.m)
             IN /\ currentInputRef' = r.inp
                /\ currentOutputRef' = r.out
                /\ captionText' = r.cap
                /\ transcript' = r.tr
                /\ sourcesRef' = r.srcs
                /\ playing' = r.play
                /\ nextStartTimeRef' = r.ns]_vars

\* C28: at most one video source is live and at most one video timer runs,
\* and each is the one held in videoStreamRef or videoIntervalRef, which is
\* what stopScreenShare releases.
C28_OneVideoSourceOneTimer ==
    /\ Cardinality(vidLive) <= 1
    /\ Cardinality(timers) <= 1
    /\ \A v \in vidLive : v = videoStreamRef
    /\ \A t \in timers : t = videoIntervalRef

\* C29: from a teardown until the next startSession no frame is handed to a
\* transport.
C29_NoFrameAfterTeardown ==
    [][(tornBy # "none" /\ lastOp'.op # "startSession") => wire' = wire]_vars

\* C30: a handler that processes an interruption leaves the user
\* accumulation as the other events of its message leave it (unchanged when
\* the message carries nothing else); and a turn-complete finalizes the
\* trimmed user accumulation, whatever was interrupted before, as the user
\* record.
C30_InterruptionKeepsInput ==
    [][/\ lastOp'.intr
            => currentInputRef' =
                   TurnComplete(Transcription(Refs, lastOp'.m), lastOp'.m).inp
       /\ (lastOp'.m.tc /\ lastOp'.op # "decodeFailed"
              /\ Trim(currentInputRef \o lastOp'.m.inp) # <<>>)
            => /\ Appended # <<>>
               /\ Appended[1] = [role |-> "user",
                                 text |-> Trim(currentInputRef \o lastOp'.m.inp)]]_vars

\* C30 witness: an interruption that carried nothing else has just been
\* processed while the user accumulation held text, and the text is still
\* there.
C30_InterruptedWithInputPending ==
    /\ lastOp.intr
    /\ lastOp.m.inp = <<>> /\ ~lastOp.m.tc
    /\ currentInputRef # <<>>
    /\ lastOp.pre.n >= 1

====
